---- MODULE Spec2Model ----
(***************************************************************************)
(* virtio-input device (keyboard / mouse) of libkrun:                      *)
(*   src/devices/src/virtio/input/{device,protocol,event_handler,mod}.rs   *)
(*                                                                         *)
(* Representation choices                                                  *)
(*  - a byte array is a sequence of 0..255; Rust index i is TLA+ index i+1 *)
(*  - a u64 feature mask is the set of its set bit positions (0..63), so   *)
(*    a & b is \cap, a | b is \cup and "a subset of b" is \subseteq        *)
(*  - multi-byte fields are laid out little-endian (x86_64 / aarch64)      *)
(***************************************************************************)
EXTENDS Integers, Sequences, FiniteSets, TLC

\* peer_config is the cached record of a second Input of the same class, driven
\* by its own guest: two histories of config writes side by side
VARIABLES device_type, acked_features, device_state, config, event_buffer,
          queues, rdata, log, mutex, pc, pending, peer_config

vars == <<device_type, acked_features, device_state, config, event_buffer,
          queues, rdata, log, mutex, pc, pending, peer_config>>

(***************************************************************************)
(* Bounds of the exploration (not program constants)                       *)
(***************************************************************************)
MaxBuf == 3
NumHandles == 2
NumProducers == 2
MaxUpdates == 2

(***************************************************************************)
(* protocol.rs : constants                                                 *)
(***************************************************************************)
VIRTIO_INPUT_CFG_UNSET == 0
VIRTIO_INPUT_CFG_ID_NAME == 1
VIRTIO_INPUT_CFG_ID_SERIAL == 2
VIRTIO_INPUT_CFG_ID_DEVIDS == 3
VIRTIO_INPUT_CFG_PROP_BITS == 16
VIRTIO_INPUT_CFG_EV_BITS == 17
VIRTIO_INPUT_CFG_ABS_INFO == 18

EV_SYN == 0
EV_KEY == 1
EV_REL == 2
EV_ABS == 3
EV_REP == 20

REL_X == 0
REL_Y == 1
REL_WHEEL == 8

BTN_LEFT == 272
BTN_RIGHT == 273
BTN_MIDDLE == 274

SYN_REPORT == 0

BUS_VIRTUAL == 6

(***************************************************************************)
(* mod.rs / device.rs : constants                                          *)
(***************************************************************************)
VIRTIO_F_VERSION_1 == 32
QUEUE_SIZE == 256
QUEUE_SIZES == <<QUEUE_SIZE, QUEUE_SIZE>>

Min(a, b) == IF a < b THEN a ELSE b

(***************************************************************************)
(* Byte helpers                                                            *)
(***************************************************************************)
\* `x as u8`
AsU8(x) == x % 256

\* a u16 in memory, little-endian
LE16(x) == <<x % 256, (x \div 256) % 256>>

\* a u16 read back from two bytes of memory
FromLE16(s, i) == s[i] + 256 * s[i + 1]

\* byte | (1 << k)
OrBit(byte, k) == IF (byte \div (2 ^ k)) % 2 = 1 THEN byte ELSE byte + 2 ^ k

\* protocol.rs set_bit: out-of-range bits are ignored
set_bit(bitmap, bit) ==
    LET byte_idx == bit \div 8
        bit_idx  == bit % 8
    IN IF byte_idx < Len(bitmap)
       THEN [bitmap EXCEPT ![byte_idx + 1] = OrBit(@, bit_idx)]
       ELSE bitmap

\* dst[..Len(src)].copy_from_slice(src)
copy_from_slice(dst, src) ==
    [i \in 1..Len(dst) |-> IF i <= Len(src) THEN src[i] ELSE dst[i]]

\* [b; n]
Fill(n, b) == [i \in 1..n |-> b]

(***************************************************************************)
(* protocol.rs : VirtioInputConfig, VirtioInputDevIds, VirtioInputEvent    *)
(***************************************************************************)
VirtioInputConfigUnion_default == Fill(128, 0)

VirtioInputConfig_default ==
    [select |-> 0, subsel |-> 0, size |-> 0,
     reserved |-> Fill(5, 0), u |-> VirtioInputConfigUnion_default]

\* ByteValued::as_slice of the #[repr(C)] record: 136 bytes
as_slice(c) == <<c.select, c.subsel, c.size>> \o c.reserved \o c.u

\* config.u.ids = VirtioInputDevIds {..}: overwrites the first 8 union bytes
WriteIds(u, ids) ==
    copy_from_slice(u, LE16(ids.bustype) \o LE16(ids.vendor)
                       \o LE16(ids.product) \o LE16(ids.version))

\* the union read back through its `ids` view
ReadIds(u) ==
    [bustype |-> FromLE16(u, 1), vendor |-> FromLE16(u, 3),
     product |-> FromLE16(u, 5), version |-> FromLE16(u, 7)]

\* a u32 as its two 16-bit halves (0xFFFFFFFF does not fit a 32-bit signed
\* integer); for a negative i32 this is `n as u32`, the same bit pattern
AsU32(n) == [hi |-> (n \div 65536) % 65536, lo |-> n % 65536]

VirtioInputEvent_new(event_type, code, value) ==
    [event_type |-> event_type, code |-> code, value |-> value]

syn_report == VirtioInputEvent_new(EV_SYN, SYN_REPORT, AsU32(0))

key(code, pressed) ==
    VirtioInputEvent_new(EV_KEY, code, AsU32(IF pressed THEN 1 ELSE 0))

rel_motion(axis, value) == VirtioInputEvent_new(EV_REL, axis, AsU32(value))

\* an encoder that keeps only the low half of the value
encode_low_half(e) ==
    LE16(e.event_type) \o LE16(e.code) \o LE16(e.value.lo) \o <<0, 0>>

\* ByteValued::as_slice of the #[repr(C)] event: u16, u16, u32, little-endian
encode(e) ==
    LE16(e.event_type) \o LE16(e.code) \o LE16(e.value.lo) \o LE16(e.value.hi)

\* the event read back from its 8 bytes
decode(b) ==
    [event_type |-> FromLE16(b, 1), code |-> FromLE16(b, 3),
     value |-> [hi |-> FromLE16(b, 7), lo |-> FromLE16(b, 5)]]

(***************************************************************************)
(* device.rs : identity fixed at construction                              *)
(***************************************************************************)
InputDeviceType == {"Keyboard", "Mouse"}

\* "virtio-keyboard" / "virtio-mouse" as UTF-8 bytes
name(dt) ==
    IF dt = "Keyboard"
    THEN <<118, 105, 114, 116, 105, 111, 45, 107, 101, 121, 98, 111, 97, 114, 100>>
    ELSE <<118, 105, 114, 116, 105, 111, 45, 109, 111, 117, 115, 101>>

\* "keyboard-1" / "mouse-1" as UTF-8 bytes
serial(dt) ==
    IF dt = "Keyboard"
    THEN <<107, 101, 121, 98, 111, 97, 114, 100, 45, 49>>
    ELSE <<109, 111, 117, 115, 101, 45, 49>>

avail_features == {VIRTIO_F_VERSION_1}

Inactive == [tag |-> "Inactive", mem |-> 0, interrupt |-> 0]
Activated(mem, interrupt) == [tag |-> "Activated", mem |-> mem, interrupt |-> interrupt]

is_activated == device_state.tag = "Activated"

(***************************************************************************)
(* device.rs : Input::get_config (lines 89-190)                            *)
(***************************************************************************)
\* (mutant: the string is copied with a terminating NUL counted in the size)
StringConfigWithNul(cfg, bytes) ==
    LET size == Min(Len(bytes) + 1, 128)
    IN [cfg EXCEPT !.size = AsU8(size),
                   !.u = copy_from_slice(@, SubSeq(bytes \o <<0>>, 1, size))]

\* ID_NAME / ID_SERIAL arm: size = min(len, 128), string[..size] = bytes[..size]
StringConfig(cfg, bytes) ==
    LET size == Min(Len(bytes), 128)
    IN [cfg EXCEPT !.size = AsU8(size),
                      !.u = copy_from_slice(@, SubSeq(bytes, 1, size))]

\* ID_DEVIDS arm
\* (mutant: the class is ignored, every device reports the keyboard product)
product_same(dt) == 1

product(dt) == IF dt = "Keyboard" THEN 1 ELSE 2

DevIdsConfig(cfg, dt) ==
    [cfg EXCEPT !.size = 8,
                   !.u = WriteIds(@, [bustype |-> BUS_VIRTUAL, vendor |-> 6900,
                                      product |-> product(dt), version |-> 1])]

\* (mutant: the class is not matched, both classes answer KEY, REP and REL)
EvBitsAnyClass(cfg, dt, subsel) ==
    IF subsel = AsU8(EV_KEY)
    THEN [cfg EXCEPT !.size = 128, !.u = Fill(128, 255)]
    ELSE IF subsel = AsU8(EV_REP)
    THEN [cfg EXCEPT !.size = 1, !.u[1] = 3]
    ELSE IF subsel = AsU8(EV_REL)
    THEN [cfg EXCEPT !.size = 2,
            !.u = set_bit(set_bit(set_bit(@, REL_X), REL_Y), REL_WHEEL)]
    ELSE cfg

\* EV_BITS arm, first match on the device class (lines 126-160)
EvBitsByClass(cfg, dt, subsel) ==
    IF dt = "Keyboard"
    THEN IF subsel = AsU8(EV_KEY)
         THEN [cfg EXCEPT !.size = 128, !.u = Fill(128, 255)]
         ELSE IF subsel = AsU8(EV_REP)
         THEN [cfg EXCEPT !.size = 1, !.u[1] = 3]
         ELSE cfg
    ELSE IF subsel = AsU8(EV_KEY)
         THEN [cfg EXCEPT !.size = 24,
                 !.u = set_bit(set_bit(set_bit(@, BTN_LEFT), BTN_RIGHT), BTN_MIDDLE)]
         ELSE IF subsel = AsU8(EV_REL)
         THEN [cfg EXCEPT !.size = 2,
                 !.u = set_bit(set_bit(set_bit(@, REL_X), REL_Y), REL_WHEEL)]
         ELSE cfg

\* the local `bitmap` of supported event types (lines 163-174)
EvTypesBitmap(dt) ==
    LET b0 == set_bit(Fill(128, 0), EV_SYN)
    IN IF dt = "Keyboard"
       THEN set_bit(set_bit(b0, EV_KEY), EV_REP)
       ELSE set_bit(set_bit(b0, EV_KEY), EV_REL)

\* EV_BITS arm, the `if config.size > 0` block (lines 161-182)
EvBitsTypes(cfg, dt, subsel) ==
    IF cfg.size > 0
    THEN IF subsel = 0
         THEN [cfg EXCEPT !.size = 1,
                 !.u = copy_from_slice(@, SubSeq(EvTypesBitmap(dt), 1, 1))]
         ELSE cfg
    ELSE cfg

get_config(dt, select, subsel) ==
    LET config0 == [VirtioInputConfig_default EXCEPT !.select = select,
                                                     !.subsel = subsel]
    IN CASE select = VIRTIO_INPUT_CFG_ID_NAME -> StringConfig(config0, name(dt))
         [] select = VIRTIO_INPUT_CFG_ID_SERIAL -> StringConfig(config0, serial(dt))
         [] select = VIRTIO_INPUT_CFG_ID_DEVIDS -> DevIdsConfig(config0, dt)
         [] select = VIRTIO_INPUT_CFG_EV_BITS ->
                EvBitsTypes(EvBitsByClass(config0, dt, subsel), dt, subsel)
         [] OTHER -> [config0 EXCEPT !.size = 0]

(***************************************************************************)
(* State after construction: Input::new_keyboard / Input::new_mouse         *)
(***************************************************************************)
Producers == 1..NumProducers

Queue_new(size) == [size |-> size, used |-> <<>>]

Init ==
    /\ device_type \in InputDeviceType
    /\ acked_features = {}
    /\ device_state = Inactive
    /\ config = VirtioInputConfig_default
    /\ event_buffer = <<>>
    /\ queues = [i \in 1..Len(QUEUE_SIZES) |-> Queue_new(QUEUE_SIZES[i])]
    /\ rdata = [offset |-> 0, buf |-> <<>>, data |-> <<>>]
    /\ log = "none"
    /\ mutex = 0
    /\ pc = [p \in Producers |-> "idle"]
    /\ pending = [p \in Producers |-> <<>>]
    /\ peer_config = VirtioInputConfig_default

(***************************************************************************)
(* impl VirtioDevice for Input                                             *)
(***************************************************************************)
\* set_acked_features (lines 228-230)
SetAckedFeatures(features) ==
    /\ acked_features' = features
    /\ UNCHANGED <<peer_config, device_type, device_state, config, event_buffer, queues,
                   rdata, log, mutex, pc, pending>>

\* (mutant: the offset is ignored, every read starts at the record's byte 0)
ReadConfigFromStart(offset, data) ==
    LET config_slice == as_slice(config)
        slice_len    == Len(config_slice)
        end          == offset + Len(data)
    IN /\ IF offset >= slice_len
          THEN /\ log' = "error: Failed to read config space"
               /\ rdata' = [offset |-> offset, buf |-> data, data |-> data]
          ELSE /\ rdata' = [offset |-> offset, buf |-> data,
                            data |-> copy_from_slice(data,
                               SubSeq(config_slice, 1, Min(end, slice_len) - offset))]
               /\ log' = log
       /\ UNCHANGED <<peer_config, device_type, acked_features, device_state,
                      config, event_buffer, queues, mutex, pc, pending>>

\* read_config (lines 232-243); rdata is the last call: the offset asked for,
\* the caller's buffer as passed in (buf) and as the call leaves it (data)
ReadConfig(offset, data) ==
    LET config_slice == as_slice(config)
        config_len   == Len(config_slice)
        end          == offset + Len(data)
    IN /\ IF offset >= config_len
          THEN /\ log' = "error: Failed to read config space"
               /\ rdata' = [offset |-> offset, buf |-> data, data |-> data]
          ELSE /\ rdata' = [offset |-> offset, buf |-> data,
                            data |-> copy_from_slice(data,
                               SubSeq(config_slice, offset + 1, Min(end, config_len)))]
               /\ log' = log
       /\ UNCHANGED <<peer_config, device_type, acked_features, device_state, config,
                      event_buffer, queues, mutex, pc, pending>>

\* std::mem::size_of::<VirtioInputConfig>()
config_len == Len(as_slice(VirtioInputConfig_default))

\* (mutant: the `offset == 0` test is dropped, any in-range write selects)
write_config_any_offset(cfg, dt, offset, data) ==
    IF offset >= config_len
    THEN cfg
    ELSE IF Len(data) >= 2
         THEN get_config(dt, data[1], data[2])
         ELSE cfg

\* (mutant: the new page is built over the cached record, not over a default
\* one: payload bytes past the new size survive from the previous page)
write_config_over_cached(cfg, dt, offset, data) ==
    IF offset >= config_len
    THEN cfg
    ELSE IF offset = 0 /\ Len(data) >= 2
         THEN LET new == get_config(dt, data[1], data[2])
              IN [new EXCEPT !.u = copy_from_slice(cfg.u, SubSeq(new.u, 1, new.size))]
         ELSE cfg

\* the record write_config leaves in self.config (lines 246-257)
write_config_record(cfg, dt, offset, data) ==
    IF offset >= config_len
    THEN cfg
    ELSE IF offset = 0 /\ Len(data) >= 2
         THEN get_config(dt, data[1], data[2])
         ELSE cfg

\* write_config (lines 245-258)
WriteConfig(offset, data) ==
    /\ log' = IF offset >= config_len
              THEN "error: Failed to write config space"
              ELSE log
    /\ config' = write_config_record(config, device_type, offset, data)
    /\ UNCHANGED <<peer_config, device_type, acked_features, device_state,
                   event_buffer, queues, rdata, mutex, pc, pending>>

\* write_config on the second device (its diagnostics are not recorded)
WriteConfigPeer(offset, data) ==
    /\ peer_config' = write_config_record(peer_config, device_type, offset, data)
    /\ UNCHANGED <<device_type, acked_features, device_state, config,
                   event_buffer, queues, rdata, log, mutex, pc, pending>>

\* (mutant: a second activate tears the device down again)
ActivateToggle(mem, interrupt) ==
    /\ device_state' = IF is_activated THEN Inactive ELSE Activated(mem, interrupt)
    /\ UNCHANGED <<peer_config, device_type, acked_features, config, event_buffer, queues,
                   rdata, log, mutex, pc, pending>>

\* an activation that starts from an empty event buffer
ActivateDroppingEvents(mem, interrupt) ==
    /\ device_state' = Activated(mem, interrupt)
    /\ event_buffer' = <<>>
    /\ UNCHANGED <<peer_config, device_type, acked_features, config, queues,
                   rdata, log, mutex, pc, pending>>

\* activate (lines 264-267)
Activate(mem, interrupt) ==
    /\ device_state' = Activated(mem, interrupt)
    /\ UNCHANGED <<peer_config, device_type, acked_features, config, event_buffer, queues,
                   rdata, log, mutex, pc, pending>>

\* a push that puts the new event in front of the buffered ones
SendEventAtFront(event) ==
    /\ mutex = 0
    /\ Len(event_buffer) < MaxBuf
    /\ event_buffer' = <<event>> \o event_buffer
    /\ UNCHANGED <<peer_config, device_type, acked_features, device_state, config, queues,
                   rdata, log, mutex, pc, pending>>

(***************************************************************************)
(* Input::send_event (lines 192-196), one whole call                       *)
(***************************************************************************)
SendEvent(event) ==
    /\ mutex = 0
    /\ Len(event_buffer) < MaxBuf
    /\ event_buffer' = Append(event_buffer, event)
    /\ UNCHANGED <<peer_config, device_type, acked_features, device_state, config, queues,
                   rdata, log, mutex, pc, pending>>

(***************************************************************************)
(* event_handler.rs : InputEventHandler                                    *)
(***************************************************************************)
\* interest_list (lines 33-36): no file descriptor is registered
interest_list == {}

\* process (lines 21-31)
Process(event_set) ==
    /\ IF event_set # "IN"
       THEN log' = "warn: Input: unexpected event_set"
       ELSE log' = "debug: Input event handler process called"
    /\ UNCHANGED <<peer_config, device_type, acked_features, device_state, config,
                   event_buffer, queues, rdata, mutex, pc, pending>>

(***************************************************************************)
(* Input::send_event called from several host threads: the steps of one    *)
(* call (lines 193, 194, and the guard dropped at 196)                     *)
(***************************************************************************)
\* the host input source of producer p reports a key press: the key event
\* followed by its SYN_REPORT marker, each through its own send_event call
KeyCodeOf(p) == 29 + p

EventsInFlight ==
    LET RECURSIVE Sum(_)
        Sum(S) == IF S = {} THEN 0
                  ELSE LET q == CHOOSE x \in S : TRUE
                       IN Len(pending[q]) + Sum(S \ {q})
    IN Len(event_buffer) + Sum(Producers)

StartUpdate(p) ==
    /\ pc[p] = "idle"
    /\ pending[p] = <<>>
    /\ EventsInFlight + 2 <= 2 * MaxUpdates
    /\ pending' = [pending EXCEPT ![p] = <<key(KeyCodeOf(p), TRUE), syn_report>>]
    /\ UNCHANGED <<peer_config, device_type, acked_features, device_state, config,
                   event_buffer, queues, rdata, log, mutex, pc>>

\* send_event(Head(pending[p])) is entered
Call(p) ==
    /\ pc[p] = "idle"
    /\ pending[p] # <<>>
    /\ pc' = [pc EXCEPT ![p] = "lock"]
    /\ UNCHANGED <<peer_config, device_type, acked_features, device_state, config,
                   event_buffer, queues, rdata, log, mutex, pending>>

\* a lock that is handed out while another caller holds it
LockWithoutWaiting(p) ==
    /\ pc[p] = "lock"
    /\ mutex' = p
    /\ pc' = [pc EXCEPT ![p] = "push"]
    /\ UNCHANGED <<peer_config, device_type, acked_features, device_state, config,
                   event_buffer, queues, rdata, log, pending>>

\* self.event_buffer.lock().unwrap()
Lock(p) ==
    /\ pc[p] = "lock"
    /\ mutex = 0
    /\ mutex' = p
    /\ pc' = [pc EXCEPT ![p] = "push"]
    /\ UNCHANGED <<peer_config, device_type, acked_features, device_state, config,
                   event_buffer, queues, rdata, log, pending>>

\* buffer.push(event)
Push(p) ==
    /\ pc[p] = "push"
    /\ event_buffer' = Append(event_buffer, Head(pending[p]))
    /\ pc' = [pc EXCEPT ![p] = "unlock"]
    /\ UNCHANGED <<peer_config, device_type, acked_features, device_state, config, queues,
                   rdata, log, mutex, pending>>

\* the MutexGuard is dropped and the call returns
Unlock(p) ==
    /\ pc[p] = "unlock"
    /\ mutex' = 0
    /\ pc' = [pc EXCEPT ![p] = "idle"]
    /\ pending' = [pending EXCEPT ![p] = Tail(@)]
    /\ UNCHANGED <<peer_config, device_type, acked_features, device_state, config,
                   event_buffer, queues, rdata, log>>

(***************************************************************************)
(* Inputs of the device-level specification                                *)
(***************************************************************************)
FeatureInputs == {{}, avail_features, avail_features \cup {0}}
Handles == 1..NumHandles
KeyCodes == {30}
Events == {key(c, TRUE) : c \in KeyCodes} \cup {syn_report}
EventSets == {"IN", "OUT"}
WriteOffsets == {0, 1, 136}
WriteData == {<<VIRTIO_INPUT_CFG_ID_DEVIDS, 0>>, <<VIRTIO_INPUT_CFG_EV_BITS, 0>>,
              <<VIRTIO_INPUT_CFG_EV_BITS, 1>>, <<VIRTIO_INPUT_CFG_ID_DEVIDS>>}
ReadOffsets == {0, 136}
ReadBufs == {<<0, 0, 0>>}

Next ==
    \/ \E f \in FeatureInputs : SetAckedFeatures(f)
    \/ \E o \in ReadOffsets, d \in ReadBufs : ReadConfig(o, d)
    \/ \E o \in WriteOffsets, d \in WriteData : WriteConfig(o, d)
    \/ \E m \in Handles, i \in Handles : Activate(m, i)
    \/ \E e \in Events : SendEvent(e)
    \/ \E s \in EventSets : Process(s)

Spec == Init /\ [][Next]_vars

\* the event loop keeps running handlers; a signalled handler is run
FairSpec == Spec /\ WF_vars(Next) /\ WF_vars(Process("IN"))

(***************************************************************************)
(* Config-space specification: the guest selects pages and reads them      *)
(***************************************************************************)
ConfigSelects == {VIRTIO_INPUT_CFG_UNSET, VIRTIO_INPUT_CFG_ID_NAME,
                  VIRTIO_INPUT_CFG_ID_SERIAL, VIRTIO_INPUT_CFG_ID_DEVIDS, 4,
                  VIRTIO_INPUT_CFG_PROP_BITS, VIRTIO_INPUT_CFG_EV_BITS,
                  VIRTIO_INPUT_CFG_ABS_INFO, 19, 255}
ConfigSubsels == {0, EV_KEY, EV_REL, EV_ABS, EV_REP, 21, 255}
ConfigWriteOffsets == {0, 1}
ConfigWriteData == {<<s, b>> : s \in ConfigSelects, b \in ConfigSubsels}
                   \cup {<<VIRTIO_INPUT_CFG_ID_DEVIDS>>}
ConfigReadOffsets == {0, 8}
ConfigReadBufs == {Fill(16, 0)}

ConfigNext ==
    \/ \E o \in ConfigWriteOffsets, d \in ConfigWriteData : WriteConfig(o, d)
    \/ \E o \in ConfigReadOffsets, d \in ConfigReadBufs : ReadConfig(o, d)

ConfigSpec == Init /\ [][ConfigNext]_vars

(***************************************************************************)
(* Write specification: config writes at every kind of offset and length,  *)
(* on a device whose features and activation are being driven as well      *)
(***************************************************************************)
GuestWriteOffsets == {0, 1, 2, 135, 136, 137}
GuestWriteData == {<<>>, <<VIRTIO_INPUT_CFG_ID_DEVIDS>>,
                   <<VIRTIO_INPUT_CFG_ID_DEVIDS, 0>>,
                   <<VIRTIO_INPUT_CFG_EV_BITS, EV_KEY>>,
                   <<VIRTIO_INPUT_CFG_ID_SERIAL, 7>>,
                   <<VIRTIO_INPUT_CFG_ID_NAME, 0, 9>>}

WriteNext ==
    \/ \E o \in GuestWriteOffsets, d \in GuestWriteData : WriteConfig(o, d)
    \/ \E f \in FeatureInputs : SetAckedFeatures(f)
    \/ \E m \in Handles, i \in Handles : Activate(m, i)

WriteSpec == Init /\ [][WriteNext]_vars

(***************************************************************************)
(* Read specification: config reads at every kind of offset and length,    *)
(* into a caller's buffer that holds a pattern no record contains          *)
(***************************************************************************)
GuestReadOffsets == {0, 1, 2, 3, 8, 30, 130, 135, 136, 137, 2147483647}
GuestReadLens == {0, 1, 2, 8, 16}
GuestReadBufs == {Fill(n, 170) : n \in GuestReadLens}
GuestSelectData == {<<VIRTIO_INPUT_CFG_ID_NAME, 0>>, <<VIRTIO_INPUT_CFG_ID_DEVIDS, 0>>,
                    <<VIRTIO_INPUT_CFG_EV_BITS, EV_KEY>>,
                    <<VIRTIO_INPUT_CFG_EV_BITS, EV_REL>>}

ReadNext ==
    \/ \E d \in GuestSelectData : WriteConfig(0, d)
    \/ \E o \in GuestReadOffsets, d \in GuestReadBufs : ReadConfig(o, d)

ReadSpec == Init /\ [][ReadNext]_vars

(***************************************************************************)
(* Producer specification: host threads inside send_event, interleaved     *)
(* with each other and with the event handler                              *)
(***************************************************************************)
ProducerNext ==
    \/ \E p \in Producers : StartUpdate(p)
    \/ \E p \in Producers : Call(p)
    \/ \E p \in Producers : Lock(p)
    \/ \E p \in Producers : Push(p)
    \/ \E p \in Producers : Unlock(p)
    \/ \E s \in EventSets : Process(s)

ProducerSpec == Init /\ [][ProducerNext]_vars

\* each host thread keeps running: a step of a call that stays possible is
\* eventually taken
ProducerFairSpec ==
    ProducerSpec /\ \A p \in Producers :
        WF_vars(Call(p)) /\ WF_vars(Lock(p)) /\ WF_vars(Push(p)) /\ WF_vars(Unlock(p))

(***************************************************************************)
(* Properties                                                              *)
(***************************************************************************)
\* bit `bit` of a bitmap, as the guest reads it
test_bit(bitmap, bit) ==
    /\ bit \div 8 < Len(bitmap)
    /\ (bitmap[bit \div 8 + 1] \div (2 ^ (bit % 8))) % 2 = 1

Range(seq) == {seq[i] : i \in 1..Len(seq)}

\* C1: acked_features() is a subset of avail_features() in every reachable
\* state, whatever arguments set_acked_features was called with.
C1_AckedSubsetOfAvail == acked_features \subseteq avail_features

\* C2: after a config write of [EV_BITS, 0] the cached record is a 1-byte
\* bitmap with the SYN bit set, plus KEY and REP on a keyboard and KEY and REL
\* on a mouse.
C2_EvBitsTypesRecord ==
    (config.select = VIRTIO_INPUT_CFG_EV_BITS /\ config.subsel = 0) =>
        /\ config.size = 1
        /\ test_bit(config.u, EV_SYN)
        /\ test_bit(config.u, EV_KEY)
        /\ device_type = "Keyboard" => test_bit(config.u, EV_REP)
        /\ device_type = "Mouse" => test_bit(config.u, EV_REL)

\* the dispatch table of defined (select, subsel) entries, per device class
DefinedEntry(dt, select, subsel) ==
    \/ select \in {VIRTIO_INPUT_CFG_ID_NAME, VIRTIO_INPUT_CFG_ID_SERIAL,
                   VIRTIO_INPUT_CFG_ID_DEVIDS}
    \/ /\ select = VIRTIO_INPUT_CFG_EV_BITS
       /\ \/ subsel \in {0, EV_KEY}
          \/ dt = "Keyboard" /\ subsel = EV_REP
          \/ dt = "Mouse" /\ subsel = EV_REL

\* C3: for both device classes, the record cached for a (select, subsel) pair
\* that is not a defined table entry of the class has size 0.
C3_UndefinedEntryIsEmpty ==
    ~DefinedEntry(device_type, config.select, config.subsel) => config.size = 0

\* C3 witness: a keyboard asked for the mouse-only page (EV_BITS, REL)
C3_Witness ==
    /\ device_type = "Keyboard"
    /\ config.select = VIRTIO_INPUT_CFG_EV_BITS
    /\ config.subsel = EV_REL
    /\ config.size = 0

ExpectedDevIds(dt) ==
    [bustype |-> 6, vendor |-> 6900,
     product |-> IF dt = "Keyboard" THEN 1 ELSE 2, version |-> 1]

\* C4: once [ID_DEVIDS, 0] is written, whatever was selected before, the record
\* has size 8 and holds {bustype 6, vendor 0x1af4, product 1 (keyboard) or 2
\* (mouse), version 1}, and a read of the record at offset 0 returns exactly
\* that: byte 2 is the size, bytes 8..15 the four little-endian ids.
C4_DevIdsRecord ==
    /\ config.select = VIRTIO_INPUT_CFG_ID_DEVIDS =>
          /\ config.size = 8
          /\ ReadIds(config.u) = ExpectedDevIds(device_type)
    /\ (/\ rdata.offset = 0
        /\ Len(rdata.data) >= 16
        /\ rdata.data[1] = VIRTIO_INPUT_CFG_ID_DEVIDS) =>
          /\ rdata.data[3] = 8
          /\ ReadIds(SubSeq(rdata.data, 9, 16)) = ExpectedDevIds(device_type)

\* C4 witness: a mouse whose ID_DEVIDS record has been selected and read back
C4_Witness ==
    /\ device_type = "Mouse"
    /\ config.select = VIRTIO_INPUT_CFG_ID_DEVIDS
    /\ rdata.offset = 0
    /\ Len(rdata.data) >= 16
    /\ rdata.data[1] = VIRTIO_INPUT_CFG_ID_DEVIDS
    /\ rdata.data[13] = 2

\* C5: is_activated() is false initially and until the first activate(), true
\* after every activate(), and once true it stays true under every operation.
C5_ActivationIsOneWay ==
    /\ ~is_activated
    /\ [][/\ is_activated => is_activated'
          /\ (\E m \in Handles, i \in Handles : Activate(m, i)) => is_activated'
          /\ (~is_activated /\ is_activated') =>
                \E m \in Handles, i \in Handles : Activate(m, i)]_vars

\* C5 witness: an activated device on which config, features, buffer and
\* handler operations have run since
C5_Witness ==
    /\ is_activated
    /\ event_buffer # <<>>
    /\ config.select # 0
    /\ acked_features # {}
    /\ Len(rdata.data) > 0
    /\ log = "debug: Input event handler process called"

\* C6: an activate() on an already activated device is rejected or a no-op:
\* the stored memory and interrupt handles stay what the first call stored.
C6_ActivateOnce == [][is_activated => device_state' = device_state]_vars

\* C7: the event buffer never grows beyond a fixed bound (the oldest entries
\* are dropped instead).  The code states no bound, so the claim is put for the
\* largest bound the exploration can exceed.
BufferBound == MaxBuf - 1

C7_BufferBounded == Len(event_buffer) <= BufferBound

C9_KeyThenSynAdjacent ==
    \A i \in 1..Len(event_buffer) :
        (event_buffer[i].event_type = EV_KEY /\ i < Len(event_buffer)) =>
            event_buffer[i + 1] = syn_report

\* C10: every event pushed while the device is activated is eventually
\* written to an event-queue descriptor and marked used.
C10_EventuallyDelivered ==
    \A e \in Events :
        (is_activated /\ e \in Range(event_buffer)) ~> (e \in Range(queues[1].used))

\* C11: a config write selects a page only at offset 0 with at least 2 bytes,
\* and then select = data[0] and subsel = data[1]; every other write (other
\* offset, offset past the record, fewer than 2 bytes) leaves the cached
\* record as it was; no write touches any other device state.
C11_WriteAcceptedOnlyAtOffsetZero ==
    [][\A o \in GuestWriteOffsets, d \in GuestWriteData :
          WriteConfig(o, d) =>
             /\ IF o = 0 /\ Len(d) >= 2
                THEN config'.select = d[1] /\ config'.subsel = d[2]
                ELSE config' = config
             /\ UNCHANGED <<device_type, acked_features, device_state,
                            event_buffer, queues>>]_vars

\* C11 witness: on an activated device with features acked, a record was
\* selected and a later write past the record end was refused with a
\* diagnostic, the record still cached
C11_Witness ==
    /\ log = "error: Failed to write config space"
    /\ is_activated
    /\ acked_features # {}
    /\ config.select = VIRTIO_INPUT_CFG_ID_DEVIDS
    /\ config.size = 8

\* byte i (from 0) of the serialized record
\* {select, subsel, size, reserved[5], payload[128]}
RecordByte(c, i) ==
    IF i = 0 THEN c.select
    ELSE IF i = 1 THEN c.subsel
    ELSE IF i = 2 THEN c.size
    ELSE IF i < 8 THEN c.reserved[i - 2]
    ELSE c.u[i - 7]

\* the caller's buffer after a read of record c at offset o: min(len, 136 - o)
\* bytes of the record when o < 136, nothing otherwise
ExpectedRead(c, o, buf) ==
    LET produced == IF o < 136 THEN Min(Len(buf), 136 - o) ELSE 0
    IN [k \in 1..Len(buf) |->
           IF k <= produced THEN RecordByte(c, o + k - 1) ELSE buf[k]]

\* C12: a read at any offset and length returns the serialized record's bytes
\* from that offset, clipped to its 136 bytes; at or past the end it produces
\* nothing and leaves the caller's buffer untouched; no read alters the device.
C12_ReadReturnsRecordBytes ==
    [][(rdata' # rdata \/ (log' # log /\ log' = "error: Failed to read config space")) =>
          /\ rdata'.data = ExpectedRead(config, rdata'.offset, rdata'.buf)
          /\ UNCHANGED <<device_type, acked_features, device_state, config,
                         event_buffer, queues>>]_vars

\* C12 witness: a 16-byte read at offset 130 of a selected page was clipped to
\* the record's last 6 bytes, the other 10 bytes of the buffer untouched
C12_Witness ==
    /\ config.select = VIRTIO_INPUT_CFG_EV_BITS
    /\ config.size = 128
    /\ rdata.offset = 130
    /\ rdata.data = Fill(6, 255) \o Fill(10, 170)

\* record c answers a string page for string str: size = min(len, 128) and the
\* first `size` payload bytes are the first `size` bytes of the string
StringRecordOk(c, str) ==
    /\ c.size = Min(Len(str), 128)
    /\ SubSeq(c.u, 1, c.size) = SubSeq(str, 1, c.size)

\* strings at and beyond the payload's 128 bytes, of distinct neighbouring bytes
LongStrings == {[i \in 1..n |-> 1 + (i % 251)] : n \in {127, 128, 129, 200}}

\* C13: with ID_NAME (ID_SERIAL) selected the record's size is the length of
\* the device's name (serial) capped at 128 and the payload starts with that
\* many bytes of the string; a string longer than 128 bytes is cut at 128.
C13_StringPages ==
    /\ config.select = VIRTIO_INPUT_CFG_ID_NAME =>
          StringRecordOk(config, name(device_type))
    /\ config.select = VIRTIO_INPUT_CFG_ID_SERIAL =>
          StringRecordOk(config, serial(device_type))
    /\ \A str \in LongStrings :
          StringRecordOk(StringConfig(VirtioInputConfig_default, str), str)

\* C13 witness: a mouse whose serial "mouse-1" (7 bytes) is selected
C13_Witness ==
    /\ device_type = "Mouse"
    /\ config.select = VIRTIO_INPUT_CFG_ID_SERIAL
    /\ config.size = 7
    /\ SubSeq(config.u, 1, 8) = <<109, 111, 117, 115, 101, 45, 49, 0>>

\* the event codes a capability record advertises: the bits set within the
\* `size` bytes the guest is told are valid
AdvertisedCodes(c) == {i \in 0..(8 * c.size - 1) : test_bit(SubSeq(c.u, 1, c.size), i)}

\* C14: on a mouse, (EV_BITS, KEY) answers a 24-byte bitmap whose set bits are
\* exactly the codes of the left, right and middle buttons.
C14_MouseButtonBitmap ==
    (/\ device_type = "Mouse"
     /\ config.select = VIRTIO_INPUT_CFG_EV_BITS
     /\ config.subsel = EV_KEY) =>
        /\ config.size = 24
        /\ AdvertisedCodes(config) = {BTN_LEFT, BTN_RIGHT, BTN_MIDDLE}

(***************************************************************************)
(* Events built by the host input source and handed to send_event          *)
(***************************************************************************)
\* i32 deltas, including both ends of the range
Deltas == {0, 1, -1, 300, -70000, 2147483647, (-2147483647) - 1}
U16Samples == {0, 1, 65535}
CodecEvents ==
    {syn_report, key(0, TRUE), key(BTN_LEFT, FALSE), key(65535, TRUE)}
    \cup {rel_motion(REL_X, d) : d \in Deltas}
    \cup {rel_motion(REL_WHEEL, -1)}
    \cup {VirtioInputEvent_new(t, c, [hi |-> h, lo |-> l]) :
             t \in {65535}, c \in {0}, h \in {0, 65535}, l \in {65535}}

CodecNext == \E e \in CodecEvents : SendEvent(e)

CodecSpec == Init /\ [][CodecNext]_vars

\* byte k (0 = least significant) of the 32-bit two's complement of an i32
TwosComplementByte(d, k) == (d \div (256 ^ k)) % 256

\* C15: an event encodes to 8 bytes (type, code, value) and decodes back to
\* itself, including code 0 and value 0xFFFFFFFF; rel_motion stores the delta
\* modulo 2^32 and key stores 1 or 0.
C15_EventCodecRoundTrip ==
    /\ \A i \in 1..Len(event_buffer) :
          LET e == event_buffer[i]
          IN /\ Len(encode(e)) = 8
             /\ decode(encode(e)) = e
             /\ SubSeq(encode(e), 1, 4) = LE16(e.event_type) \o LE16(e.code)
             /\ e.event_type = EV_KEY =>
                   SubSeq(encode(e), 5, 8) \in {<<1, 0, 0, 0>>, <<0, 0, 0, 0>>}
             /\ e.event_type = EV_REL =>
                   \E d \in Deltas :
                      SubSeq(encode(e), 5, 8) = [k \in 1..4 |-> TwosComplementByte(d, k - 1)]
    /\ \A d \in Deltas, a \in {REL_X, REL_Y, REL_WHEEL} :
          /\ rel_motion(a, d).event_type = EV_REL /\ rel_motion(a, d).code = a
          /\ SubSeq(encode(rel_motion(a, d)), 5, 8) = [k \in 1..4 |-> TwosComplementByte(d, k - 1)]
    /\ \A c \in U16Samples :
          /\ SubSeq(encode(key(c, TRUE)), 5, 8) = <<1, 0, 0, 0>>
          /\ SubSeq(encode(key(c, FALSE)), 5, 8) = <<0, 0, 0, 0>>

\* a buffered event with code 0 and value 0xFFFFFFFF, and a motion of -1
C15_Witness ==
    /\ \E i \in 1..Len(event_buffer) :
          /\ event_buffer[i].code = 0
          /\ encode(event_buffer[i]) = <<255, 255, 0, 0, 255, 255, 255, 255>>
    /\ \E i \in 1..Len(event_buffer) : event_buffer[i] = rel_motion(REL_X, -1)

(***************************************************************************)
(* Two devices of the same class, each driven by its own history of        *)
(* config writes                                                           *)
(***************************************************************************)
PairWriteOffsets == {0, 1}
PairWriteData ==
    {<<s, 0>> : s \in {VIRTIO_INPUT_CFG_UNSET, VIRTIO_INPUT_CFG_ID_NAME,
                       VIRTIO_INPUT_CFG_ID_SERIAL, VIRTIO_INPUT_CFG_ID_DEVIDS,
                       VIRTIO_INPUT_CFG_PROP_BITS, VIRTIO_INPUT_CFG_ABS_INFO, 255}}
    \cup {<<VIRTIO_INPUT_CFG_EV_BITS, b>> : b \in {0, EV_KEY, EV_REL, EV_ABS}}
    \cup {<<VIRTIO_INPUT_CFG_ID_NAME>>}

PairNext ==
    \/ \E o \in PairWriteOffsets, d \in PairWriteData : WriteConfig(o, d)
    \/ \E o \in PairWriteOffsets, d \in PairWriteData : WriteConfigPeer(o, d)

PairSpec == Init /\ [][PairNext]_vars

\* C16: the cached record has no memory of earlier selections: two devices
\* of the same class whose last accepted write selected the same
\* [select, subsel] hold identical records over all 136 bytes, whatever
\* pages each had selected before.
C16_RecordIndependentOfHistory ==
    (config.select = peer_config.select /\ config.subsel = peer_config.subsel) =>
        /\ as_slice(config) = as_slice(peer_config)
        /\ Len(as_slice(config)) = 136
        /\ as_slice(config) = as_slice(get_config(device_type, config.select, config.subsel))

\* both devices answer DEVIDS with the 8-byte identity record and nothing else
C16_Witness ==
    /\ config.select = VIRTIO_INPUT_CFG_ID_DEVIDS
    /\ peer_config.select = VIRTIO_INPUT_CFG_ID_DEVIDS
    /\ config.size = 8
    /\ SubSeq(peer_config.u, 9, 128) = Fill(120, 0)
    /\ SubSeq(config.u, 1, 2) = LE16(BUS_VIRTUAL)

\* the callers inside the critical section of send_event (guard held)
InCriticalSection == {p \in Producers : pc[p] \in {"push", "unlock"}}

\* the events producer p has submitted or is submitting that are not in the buffer yet
Remaining(p) == IF pc[p] = "unlock" THEN Tail(pending[p]) ELSE pending[p]

Count(seq, e) == Cardinality({i \in 1..Len(seq) : seq[i] = e})

KeysIn(seq) == Cardinality({i \in 1..Len(seq) : seq[i].event_type = EV_KEY})

\* C17: send_event under concurrent callers: at most one caller is inside the
\* buffer critical section; every push appends the caller's event and keeps
\* what was there; each pushed event is in the buffer exactly once and each
\* producer's key precedes its own marker; every call eventually returns.
C17_SendEventThreadSafe ==
    /\ [](/\ Cardinality(InCriticalSection) <= 1
          /\ \A p \in Producers : p \in InCriticalSection => mutex = p
          /\ mutex # 0 => mutex \in InCriticalSection
          /\ \A p \in Producers :
                Remaining(p) \in {<<>>, <<syn_report>>,
                                  <<key(KeyCodeOf(p), TRUE), syn_report>>}
          /\ KeysIn(event_buffer) - Count(event_buffer, syn_report)
                = Cardinality({p \in Producers : Remaining(p) = <<syn_report>>})
          /\ \A n \in 0..Len(event_buffer) :
                Count(SubSeq(event_buffer, 1, n), syn_report)
                   <= KeysIn(SubSeq(event_buffer, 1, n))
          /\ (\A p \in Producers : pc[p] = "idle" /\ pending[p] = <<>>) =>
                /\ Len(event_buffer) = 2 * KeysIn(event_buffer)
                /\ \A p \in Producers :
                      Count(event_buffer, key(KeyCodeOf(p), TRUE)) <= MaxUpdates)
    /\ [][event_buffer' # event_buffer =>
             \E p \in Producers :
                /\ pc[p] = "push" /\ mutex = p
                /\ event_buffer' = Append(event_buffer, Head(pending[p]))
                /\ pending' = pending]_vars
    /\ \A p \in Producers : (pc[p] # "idle") ~> (pc[p] = "idle")

\* all calls have returned and the two producers' updates are interleaved in the buffer
C17_Witness ==
    /\ \A p \in Producers : pc[p] = "idle" /\ pending[p] = <<>>
    /\ mutex = 0
    /\ Len(event_buffer) = 4
    /\ event_buffer[1] = key(KeyCodeOf(1), TRUE)
    /\ event_buffer[2] = key(KeyCodeOf(2), TRUE)

(***************************************************************************)
(* The five device operations over a small set of arguments each           *)
(***************************************************************************)
FrameFeatures == {avail_features, {0}}
FrameWriteOffsets == {0, 1, 136}
FrameWriteData == {<<VIRTIO_INPUT_CFG_ID_NAME, 0>>, <<VIRTIO_INPUT_CFG_EV_BITS, EV_KEY>>,
                   <<VIRTIO_INPUT_CFG_ID_NAME>>}
FrameReadOffsets == {0, 136}
FrameReadBufs == {Fill(4, 170)}
FrameEvents == {key(30, TRUE), syn_report}
FrameHandles == {1}

FrameNext ==
    \/ \E f \in FrameFeatures : SetAckedFeatures(f)
    \/ \E o \in FrameReadOffsets, d \in FrameReadBufs : ReadConfig(o, d)
    \/ \E o \in FrameWriteOffsets, d \in FrameWriteData : WriteConfig(o, d)
    \/ \E m \in FrameHandles, i \in FrameHandles : Activate(m, i)
    \/ \E e \in FrameEvents : SendEvent(e)

FrameSpec == Init /\ [][FrameNext]_vars

\* C18: each operation changes only its own component: write_config at most
\* the cached record, set_acked_features only acked_features, activate only
\* the activation state (buffered events are kept), send_event only the
\* event buffer, read_config nothing; the offered features, the device
\* identity and the two queue sizes of 256 never change.
C18_OperationsKeepTheirFrame ==
    /\ [](/\ avail_features = {VIRTIO_F_VERSION_1}
          /\ [i \in 1..Len(queues) |-> queues[i].size] = <<256, 256>>)
    /\ [][/\ device_type' = device_type
          /\ [i \in 1..Len(queues') |-> queues'[i].size] = <<256, 256>>
          /\ \A o \in FrameWriteOffsets, d \in FrameWriteData :
                WriteConfig(o, d) =>
                   UNCHANGED <<acked_features, device_state, event_buffer>>
          /\ \A f \in FrameFeatures :
                SetAckedFeatures(f) =>
                   UNCHANGED <<config, device_state, event_buffer>>
          /\ \A m \in FrameHandles, i \in FrameHandles :
                Activate(m, i) =>
                   UNCHANGED <<config, acked_features, event_buffer>>
          /\ \A e \in FrameEvents :
                SendEvent(e) =>
                   UNCHANGED <<config, acked_features, device_state>>
          /\ \A o \in FrameReadOffsets, d \in FrameReadBufs :
                ReadConfig(o, d) =>
                   UNCHANGED <<config, acked_features, device_state, event_buffer>>
          /\ (~is_activated /\ is_activated') => event_buffer' = event_buffer
          /\ rdata' # rdata =>
                UNCHANGED <<config, acked_features, device_state, event_buffer>>
          /\ Cardinality({k \in 1..4 :
                 <<config, acked_features, device_state, event_buffer>>[k]
                    # <<config', acked_features', device_state', event_buffer'>>[k]}) <= 1]_vars

\* an activated device still holding the two events pushed before, with a
\* page selected and a read done, and features left unacknowledged
C18_Witness ==
    /\ is_activated
    /\ event_buffer = <<key(30, TRUE), syn_report>>
    /\ config.select = VIRTIO_INPUT_CFG_EV_BITS
    /\ acked_features = {}
    /\ rdata.data = <<VIRTIO_INPUT_CFG_EV_BITS, EV_KEY>> \o <<config.size, 0>>

====
